---------------------------- MODULE Spec2Model ----------------------------
(***************************************************************************)
(* A model of talon_api.py: the context builder (analyze_code_context),    *)
(* the diagnostic scanner (detect_errors_with_context), the rewrite engine *)
(* (apply_smart_fixes, find_insertion_point, get_line_indent) and the      *)
(* usage counter of the /v1/analyze handler (analyze_code, user_db).       *)
(*                                                                         *)
(* Representation of text.  A source line is a record                      *)
(*     [indent |-> number of leading blanks, toks |-> sequence of tokens]  *)
(* and stands for the string made of `indent` blanks followed by the       *)
(* tokens, where the tokens "." "(" ")" ":" "'" bind tightly to their      *)
(* neighbours, "," is followed by one blank, "#" is preceded by two blanks  *)
(* and every other pair of tokens (words, numerals, "=", "/") is separated *)
(* by exactly one blank.  A token of a source text is a maximal run of     *)
(* word characters (\w+) or one punctuation mark.  A line with no tokens   *)
(* is a blank line (only whitespace).  The regular expressions of the      *)
(* source are transcribed to this representation; where the source tests   *)
(* for a substring (no \b), the model tests the spelling of the tokens,    *)
(* see Spell.  The fixed texts the rewrite engine writes, which nothing    *)
(* scans again, are single tokens ("except ZeroDivisionError:").           *)
(***************************************************************************)
EXTENDS Integers, Sequences, FiniteSets, TLC

\* The longest source text, in lines.
MaxLines == 3
\* The number of request-handling threads of the server.
NumThreads == 2
\* The number of requests one thread handles in a run.
MaxRequests == 2
\* How far below the limit the usage counter may start.
StartBelow == 2

---------------------------------------------------------------------------
(* Tokens and their spelling *)

Punct == {"=", "/", ".", "(", ")", ":", ",", "'", "#"}

Quotes == {"'"}

Digits == {"0", "1", "2", "3", "4", "5", "6", "7", "8", "9"}

\* The characters of a token.  Only the tokens of source texts are spelled;
\* a punctuation mark is its own single character.
Spell(t) ==
    CASE t = "x"       -> <<"x">>
      [] t = "y"       -> <<"y">>
      [] t = "a"       -> <<"a">>
      [] t = "b"       -> <<"b">>
      [] t = "f"       -> <<"f">>
      [] t = "i"       -> <<"i">>
      [] t = "r"       -> <<"r">>
      [] t = "A"       -> <<"A">>
      [] t = "0"       -> <<"0">>
      [] t = "1"       -> <<"1">>
      [] t = "10"      -> <<"1", "0">>
      [] t = "os"      -> <<"o", "s">>
      [] t = "in"      -> <<"i", "n">>
      [] t = "def"     -> <<"d", "e", "f">>
      [] t = "for"     -> <<"f", "o", "r">>
      [] t = "txt"     -> <<"t", "x", "t">>
      [] t = "sep"     -> <<"s", "e", "p">>
      [] t = "data"    -> <<"d", "a", "t", "a">>
      [] t = "self"    -> <<"s", "e", "l", "f">>
      [] t = "open"    -> <<"o", "p", "e", "n">>
      [] t = "None"    -> <<"N", "o", "n", "e">>
      [] t = "from"    -> <<"f", "r", "o", "m">>
      [] t = "path"    -> <<"p", "a", "t", "h">>
      [] t = "class"   -> <<"c", "l", "a", "s", "s">>
      [] t = "print"   -> <<"p", "r", "i", "n", "t">>
      [] t = "import"  -> <<"i", "m", "p", "o", "r", "t">>
      [] t = "return"  -> <<"r", "e", "t", "u", "r", "n">>
      [] t = "pandas"  -> <<"p", "a", "n", "d", "a", "s">>
      [] t = "process" -> <<"p", "r", "o", "c", "e", "s", "s">>
      [] OTHER         -> <<t>>

IsPrefix(p, s) == Len(p) <= Len(s) /\ SubSeq(s, 1, Len(p)) = p

IsSuffix(p, s) == Len(p) <= Len(s) /\ SubSeq(s, Len(s) - Len(p) + 1, Len(s)) = p

\* p occurs in s as a substring.
Occurs(p, s) ==
    \E k \in 1..(Len(s) - Len(p) + 1) : SubSeq(s, k, k + Len(p) - 1) = p

\* \w+ : a run of word characters.
IsWord(t) == t \notin Punct

\* [a-zA-Z_]\w* between word boundaries: a token not starting with a digit.
IsIdent(t) == IsWord(t) /\ Spell(t)[1] \notin Digits

\* The positions of a sequence satisfying a test, and the least of a set.
Min(S) == CHOOSE m \in S : \A n \in S : m <= n

Max(S) == CHOOSE m \in S : \A n \in S : m >= n

\* String lines are 0-indexed in the source; sequences here are 1-indexed.
At(ls, k) == ls[k + 1]

\* line.strip() is empty.
IsBlank(line) == line.toks = <<>>

\* not stripped or stripped.startswith('#')
IsSkipped(line) == IsBlank(line) \/ line.toks[1] = "#"

get_line_indent(line) == line.indent

\* The pieces of a token sequence between the top-level separators sep
\* (str.split(sep) followed by strip() of each piece).
RECURSIVE SplitOn(_, _)
SplitOn(ts, sep) ==
    IF \A p \in 1..Len(ts) : ts[p] # sep
    THEN <<ts>>
    ELSE LET p == Min({q \in 1..Len(ts) : ts[q] = sep})
         IN  <<SubSeq(ts, 1, p - 1)>> \o SplitOn(SubSeq(ts, p + 1, Len(ts)), sep)


\* Whether a blank separates ts[p] and ts[p+1] in the text of the line.
Tight == {".", "(", ")", ":", "'"}

Gap(ts, p) == ts[p] \notin Tight /\ ts[p + 1] \notin (Tight \cup {","})

\* The single tokens among the comma-separated pieces of ts: the pieces
\* that are one name once stripped.
Names(ts) ==
    LET ps == SplitOn(ts, ",")
    IN  {ps[k][1] : k \in {j \in 1..Len(ps) : Len(ps[j]) = 1}}

---------------------------------------------------------------------------
(* analyze_code_context *)

EmptyContext ==
    [defined_vars |-> {}, imported_modules |-> {}, functions |-> {}, classes |-> {}]

\* r'^import\s+(\w+)'
ImportMatch(ts) == Len(ts) >= 2 /\ ts[1] = "import" /\ IsWord(ts[2])

\* r'^from\s+(\w+)\s+import\s+(.+)'
FromImport(ts) ==
    Len(ts) >= 4 /\ ts[1] = "from" /\ IsWord(ts[2]) /\ ts[3] = "import" /\ Gap(ts, 3)

\* r'^def\s+(\w+)\s*\((.*?)\):' : the places of a ")" followed by ":".
DefCloses(ts) ==
    {q \in 4..(Len(ts) - 1) : ts[q] = ")" /\ ts[q + 1] = ":"}

FuncMatch(ts) ==
    Len(ts) >= 5 /\ ts[1] = "def" /\ IsWord(ts[2]) /\ ts[3] = "(" /\ DefCloses(ts) # {}

\* group(2) of the match: non-greedy, up to the first "):".
FuncParams(ts) == SubSeq(ts, 4, Min(DefCloses(ts)) - 1)

\* A parameter with a default value keeps what is left of its first "=".
ParamName(piece) ==
    IF \E p \in 1..Len(piece) : piece[p] = "="
    THEN SubSeq(piece, 1, Min({p \in 1..Len(piece) : piece[p] = "="}) - 1)
    ELSE piece

\* The names added for the parameter list: every stripped piece but 'self'.
ParamNames(params) ==
    LET ps == SplitOn(params, ",")
        one == {k \in 1..Len(ps) : Len(ParamName(ps[k])) = 1}
    IN  {ParamName(ps[k])[1] : k \in one} \ {"self"}

\* r'^class\s+(\w+)'
ClassMatch(ts) == Len(ts) >= 2 /\ ts[1] = "class" /\ IsWord(ts[2])

\* r'^for\s+(\w+)\s+in\s+'
ForMatch(ts) ==
    Len(ts) >= 4 /\ ts[1] = "for" /\ IsWord(ts[2]) /\ ts[3] = "in" /\ Gap(ts, 3)

\* r'^(\w+)\s*='
AssignMatch(ts) == Len(ts) >= 2 /\ IsWord(ts[1]) /\ ts[2] = "="

\* r'^([^=]+)=' : the text left of the first "=".
MultiAssign(ts) == Len(ts) >= 2 /\ ts[1] # "=" /\ \E p \in 2..Len(ts) : ts[p] = "="

LeftSide(ts) == SubSeq(ts, 1, Min({p \in 1..Len(ts) : ts[p] = "="}) - 1)

\* The body of the loop of analyze_code_context for one line.
ContextLine(ctx, line) ==
    LET ts == line.toks
    IN  IF IsSkipped(line) THEN ctx
        ELSE
        [defined_vars |->
            ctx.defined_vars
            \cup (IF FromImport(ts) THEN Names(SubSeq(ts, 4, Len(ts))) ELSE {})
            \cup (IF FuncMatch(ts) THEN {ts[2]} \cup ParamNames(FuncParams(ts)) ELSE {})
            \cup (IF ClassMatch(ts) THEN {ts[2]} ELSE {})
            \cup (IF ForMatch(ts) THEN {ts[2]} ELSE {})
            \cup (IF AssignMatch(ts) THEN {ts[1]} ELSE {})
            \cup (IF MultiAssign(ts) /\ (\E p \in 1..Len(LeftSide(ts)) : LeftSide(ts)[p] = ",")
                  THEN {n \in Names(LeftSide(ts)) : IsIdent(n)} ELSE {}),
         imported_modules |->
            ctx.imported_modules
            \cup (IF ImportMatch(ts) THEN {ts[2]} ELSE {})
            \cup (IF FromImport(ts) THEN {ts[2]} ELSE {}),
         functions |-> ctx.functions \cup (IF FuncMatch(ts) THEN {ts[2]} ELSE {}),
         classes |-> ctx.classes \cup (IF ClassMatch(ts) THEN {ts[2]} ELSE {})]

RECURSIVE ContextUpTo(_, _)
ContextUpTo(ls, n) ==
    IF n = 0 THEN EmptyContext ELSE ContextLine(ContextUpTo(ls, n - 1), ls[n])

analyze_code_context(ls) == ContextUpTo(ls, Len(ls))

---------------------------------------------------------------------------
(* detect_errors_with_context *)

PYTHON_BUILTINS ==
    {"True", "False", "None", "print", "len", "str", "int", "float", "bool",
     "list", "dict", "set", "tuple", "range", "sum", "min", "max", "abs",
     "round", "sorted", "reversed", "enumerate", "zip", "map", "filter",
     "any", "all", "open", "input", "type", "isinstance", "hasattr",
     "getattr", "setattr", "delattr", "callable", "iter", "next",
     "Exception", "ValueError", "TypeError", "KeyError", "IndexError"}

\* The packages the import detector flags.
HeavyModules ==
    {"pandas", "numpy", "requests", "matplotlib", "seaborn", "scipy", "sklearn"}

NoLine == [indent |-> 0, toks |-> <<>>]

\* A diagnostic keeps the fields the rewrite engine reads: its type, its
\* line and its fix descriptor (message, column and prevention are texts
\* nothing reads back).
Fix(type, var, new_line, filename) ==
    [type |-> type, var |-> var, new_line |-> new_line, filename |-> filename]

Diag(type, line, fix) == [type |-> type, line |-> line, fix |-> fix]

\* f"{name} = {value}" in prev_line, for some prev_line in lines[:i]: the
\* name ends a token, "=" follows, and the value starts the next token.
AssignedBefore(ls, i, name, value) ==
    \E j \in 1..i :
        LET ts == ls[j].toks
        IN  \E p \in 1..(Len(ts) - 2) :
                /\ IsWord(ts[p]) /\ IsSuffix(Spell(name), Spell(ts[p]))
                /\ ts[p + 1] = "="
                /\ IsWord(ts[p + 2]) /\ IsPrefix(Spell(value), Spell(ts[p + 2]))

\* Import errors: r'^(\s*)import\s+(\w+)' and the module is a flagged one.
ImportErrors(ls, i) ==
    LET line == ls[i + 1]
        ts == line.toks
    IN  IF ImportMatch(ts) /\ ts[2] \in HeavyModules
        THEN <<Diag("ModuleNotFoundError", i,
                    Fix("add_comment", "",
                        [indent |-> line.indent,
                         toks |-> ts \o <<"#", "Run: pip install", ts[2]>>],
                        <<>>))>>
        ELSE <<>>

\* r'(\w+)\.(\w+)' : the places where the pattern matches.
AttrPlaces(ts) ==
    {p \in 1..(Len(ts) - 2) : IsWord(ts[p]) /\ ts[p + 1] = "." /\ IsWord(ts[p + 2])}

\* None attribute access: the first match names a variable set to None
\* on an earlier line.
NoneAttrErrors(ls, i) ==
    LET ts == ls[i + 1].toks
    IN  IF AttrPlaces(ts) # {}
           /\ AssignedBefore(ls, i, ts[Min(AttrPlaces(ts))], "None")
        THEN <<Diag("AttributeError", i,
                    Fix("wrap_with_check", ts[Min(AttrPlaces(ts))], NoLine, <<>>))>>
        ELSE <<>>

\* re.findall(r'\b([a-zA-Z_]\w*)\b', line): the identifiers, left to right.
VarRefs(ts) == SelectSeq(ts, IsIdent)

\* The first four exclusions of the loop over var_refs.
IsKnown(ctx, var) ==
    \/ var \in ctx.defined_vars
    \/ var \in ctx.imported_modules
    \/ var \in ctx.functions
    \/ var \in ctx.classes
    \/ var \in PYTHON_BUILTINS

\* re.search(rf'\.{var}\b', line)
IsMethodCall(ts, var) == \E p \in 1..(Len(ts) - 1) : ts[p] = "." /\ ts[p + 1] = var

\* re.match(rf'^(def|class)\s+{var}', stripped)
IsDefinitionOf(ts, var) ==
    /\ Len(ts) >= 2 /\ ts[1] \in {"def", "class"}
    /\ Gap(ts, 1) /\ IsPrefix(Spell(var), Spell(ts[2]))

\* re.match(rf'^{var}\s*=', stripped) or re.match(rf'^for\s+{var}\s+in', stripped)
IsBoundHere(ts, var) ==
    \/ Len(ts) >= 2 /\ ts[1] = var /\ ts[2] = "="
    \/ /\ Len(ts) >= 3 /\ ts[1] = "for" /\ ts[2] = var
       /\ Gap(ts, 2) /\ IsPrefix(Spell("in"), Spell(ts[3]))

\* re.search(rf'["\'].*{var}.*["\']', line)
IsQuoted(ts, var) ==
    \E p, q, r \in 1..Len(ts) :
        /\ p < q /\ q < r
        /\ ts[p] \in Quotes /\ ts[r] \in Quotes
        /\ Occurs(Spell(var), Spell(ts[q]))

Excluded(ctx, ts, var) ==
    \/ IsKnown(ctx, var)
    \/ IsMethodCall(ts, var)
    \/ IsDefinitionOf(ts, var)
    \/ IsBoundHere(ts, var)
    \/ IsQuoted(ts, var)

\* The loop without its break: every name that is not excluded is reported.
RECURSIVE NameErrorsNoBreak(_, _, _, _, _)
NameErrorsNoBreak(ctx, ts, refs, k, i) ==
    IF k > Len(refs) THEN <<>>
    ELSE IF Excluded(ctx, ts, refs[k]) THEN NameErrorsNoBreak(ctx, ts, refs, k + 1, i)
    ELSE <<Diag("NameError", i, Fix("define_variable", refs[k], NoLine, <<>>))>>
         \o NameErrorsNoBreak(ctx, ts, refs, k + 1, i)

\* The loop over var_refs from its k-th element: every excluded name is
\* passed over (continue); the first other name is reported and ends the
\* loop (break).
RECURSIVE NameErrorsFrom(_, _, _, _, _)
NameErrorsFrom(ctx, ts, refs, k, i) ==
    IF k > Len(refs) THEN <<>>
    ELSE IF Excluded(ctx, ts, refs[k]) THEN NameErrorsFrom(ctx, ts, refs, k + 1, i)
    ELSE <<Diag("NameError", i, Fix("define_variable", refs[k], NoLine, <<>>))>>

NameErrors(ls, ctx, i) ==
    LET ts == ls[i + 1].toks
    IN  NameErrorsFrom(ctx, ts, VarRefs(ts), 1, i)

\* r'/\s*(\w+|\d+)' : the places where the pattern matches.
DivPlaces(ts) == {p \in 1..(Len(ts) - 1) : ts[p] = "/" /\ IsWord(ts[p + 1])}

DivisionErrors(ls, i) ==
    LET ts == ls[i + 1].toks
    IN  IF DivPlaces(ts) # {}
           /\ LET divisor == ts[Min(DivPlaces(ts)) + 1]
              IN  divisor = "0" \/ AssignedBefore(ls, i, divisor, "0")
        THEN <<Diag("ZeroDivisionError", i, Fix("wrap_division", "", NoLine, <<>>))>>
        ELSE <<>>

\* r'open\s*\(\s*[\'"]([^\'"]+)[\'"]' : a match starts at p and its closing
\* quote is at q, with a non-empty quote-free text between the quotes.
OpenPlaces(ts) ==
    {p \in 1..(Len(ts) - 4) :
        /\ IsWord(ts[p]) /\ IsSuffix(Spell("open"), Spell(ts[p]))
        /\ ts[p + 1] = "(" /\ ts[p + 2] \in Quotes
        /\ ts[p + 3] \notin Quotes
        /\ \E q \in (p + 4)..Len(ts) : ts[q] \in Quotes}

\* group(1): the text up to the first closing quote.
OpenFilename(ts) ==
    LET p == Min(OpenPlaces(ts))
        q == Min({r \in (p + 4)..Len(ts) : ts[r] \in Quotes})
    IN  SubSeq(ts, p + 3, q - 1)

FileErrors(ls, i) ==
    LET ts == ls[i + 1].toks
    IN  IF OpenPlaces(ts) # {}
        THEN <<Diag("FileNotFoundError", i,
                    Fix("safe_file_open", "", NoLine, OpenFilename(ts)))>>
        ELSE <<>>

\* The body of the loop of detect_errors_with_context for line i (0-based):
\* the detectors in their order.
DetectLine(ls, ctx, i) ==
    IF IsSkipped(ls[i + 1]) THEN <<>>
    ELSE ImportErrors(ls, i) \o NoneAttrErrors(ls, i) \o NameErrors(ls, ctx, i)
         \o DivisionErrors(ls, i) \o FileErrors(ls, i)

RECURSIVE DetectUpTo(_, _, _)
DetectUpTo(ls, ctx, n) ==
    IF n = 0 THEN <<>> ELSE DetectUpTo(ls, ctx, n - 1) \o DetectLine(ls, ctx, n - 1)

detect_errors_with_context(ls, ctx) == DetectUpTo(ls, ctx, Len(ls))

---------------------------------------------------------------------------
(* apply_smart_fixes, find_insertion_point *)

\* lines[k:k+1] = new_lines
ReplaceAt(ls, k, new_lines) ==
    SubSeq(ls, 1, k) \o new_lines \o SubSeq(ls, k + 2, Len(ls))

\* lines.insert(k, line), for 0 <= k
InsertAt(ls, k, line) ==
    IF k >= Len(ls) THEN Append(ls, line)
    ELSE SubSeq(ls, 1, k) \o <<line>> \o SubSeq(ls, k + 1, Len(ls))

\* re.match(r'^(def|class)\s+', line.strip())
IsDefOrClass(line) ==
    /\ Len(line.toks) >= 2
    /\ line.toks[1] \in {"def", "class"}
    /\ Gap(line.toks, 1)

\* The walk with <= for <: it stops at any line that is not indented more.
RECURSIVE WalkUpInclusive(_, _, _)
WalkUpInclusive(ls, current_indent, i) ==
    IF i < 0 THEN 0
    ELSE IF IsBlank(At(ls, i)) THEN WalkUpInclusive(ls, current_indent, i - 1)
    ELSE IF get_line_indent(At(ls, i)) <= current_indent THEN i + 1
    ELSE WalkUpInclusive(ls, current_indent, i - 1)

\* The loop of find_insertion_point from index i downwards.
RECURSIVE WalkUp(_, _, _)
WalkUp(ls, current_indent, i) ==
    IF i < 0 THEN 0
    ELSE IF IsBlank(At(ls, i)) THEN WalkUp(ls, current_indent, i - 1)
    ELSE IF get_line_indent(At(ls, i)) < current_indent THEN i + 1
    ELSE IF get_line_indent(At(ls, i)) = current_indent /\ IsDefOrClass(At(ls, i))
         THEN i + 1
    ELSE WalkUp(ls, current_indent, i - 1)

find_insertion_point(ls, error_line) ==
    WalkUp(ls, get_line_indent(At(ls, error_line)), error_line - 1)

\* The sort of apply_smart_fixes: by line, descending, and stable (the
\* diagnostics of one line keep their scan order).
RECURSIVE FromLineDown(_, _)
FromLineDown(errs, l) ==
    IF l < 0 THEN <<>>
    ELSE SelectSeq(errs, LAMBDA e : e.line = l) \o FromLineDown(errs, l - 1)

SortedByLineDesc(errs) ==
    IF errs = <<>> THEN <<>>
    ELSE FromLineDown(errs, Max({errs[k].line : k \in 1..Len(errs)}))

\* The four lines that replace a wrapped line.
Block(original_line, head, alt, tail) ==
    <<[indent |-> original_line.indent, toks |-> head],
      [indent |-> original_line.indent + 4, toks |-> original_line.toks],
      [indent |-> original_line.indent, toks |-> alt],
      [indent |-> original_line.indent + 4, toks |-> tail]>>

CheckBlock(original_line, var) ==
    Block(original_line,
          <<"if", var, "is not None:">>,
          <<"else:">>,
          <<"print(f'Error:", var, "is None')">>)

DivisionBlock(original_line) ==
    Block(original_line,
          <<"try:">>,
          <<"except ZeroDivisionError:">>,
          <<"result", "=", "0", "#", "Handle division by zero">>)

FileBlock(original_line, filename) ==
    Block(original_line,
          <<"if os.path.exists('">> \o filename \o <<"'):">>,
          <<"else:">>,
          <<"print(f'File not found:">> \o filename \o <<"')">>)

DefinitionLine(indent, var) ==
    [indent |-> indent,
     toks |-> <<var, "=", "None", "#", "TODO: Initialize this variable">>]

ImportOsLine == [indent |-> 0, toks |-> <<"import", "os">>]

\* The state of one pass: the buffer, the two sets, and whether the pass
\* raised (IndexError on lines[line_num]).
Pass(ls, imports, defined, raised) ==
    [lines |-> ls, added_imports |-> imports, defined_vars |-> defined, raised |-> raised]

Raised(p) == Pass(p.lines, p.added_imports, p.defined_vars, TRUE)

\* add_comment with a slice one line too long: lines[k:k+2] = [new_line]
AddCommentSlice(p, error) ==
    IF error.line >= Len(p.lines) THEN Raised(p)
    ELSE Pass(SubSeq(p.lines, 1, error.line) \o <<error.fix.new_line>>
                \o SubSeq(p.lines, error.line + 3, Len(p.lines)),
              p.added_imports, p.defined_vars, FALSE)

\* fix['type'] == 'add_comment'
AddComment(p, error) ==
    IF error.line >= Len(p.lines) THEN Raised(p)
    ELSE Pass([p.lines EXCEPT ![error.line + 1] = error.fix.new_line],
              p.added_imports, p.defined_vars, FALSE)

\* fix['type'] == 'wrap_with_check'
WrapWithCheck(p, error) ==
    IF error.line >= Len(p.lines) THEN Raised(p)
    ELSE Pass(ReplaceAt(p.lines, error.line,
                        CheckBlock(At(p.lines, error.line), error.fix.var)),
              p.added_imports, p.defined_vars, FALSE)

\* The guard without the pass's own set of defined names.
NeedsDefinitionNoSet(p, ctx, var) == var \notin ctx.defined_vars

\* The guard of the define_variable branch.
NeedsDefinition(p, ctx, var) ==
    var \notin p.defined_vars /\ var \notin ctx.defined_vars

\* fix['type'] == 'define_variable'
DefineVariable(p, error, ctx) ==
    IF ~NeedsDefinition(p, ctx, error.fix.var) THEN p
    ELSE IF error.line >= Len(p.lines) THEN Raised(p)
    ELSE Pass(InsertAt(p.lines, find_insertion_point(p.lines, error.line),
                       DefinitionLine(get_line_indent(At(p.lines, error.line)),
                                      error.fix.var)),
              p.added_imports, p.defined_vars \cup {error.fix.var}, FALSE)

\* fix['type'] == 'wrap_division'
WrapDivision(p, error) ==
    IF error.line >= Len(p.lines) THEN Raised(p)
    ELSE Pass(ReplaceAt(p.lines, error.line, DivisionBlock(At(p.lines, error.line))),
              p.added_imports, p.defined_vars, FALSE)

\* The first statement of the safe_file_open branch: add 'import os'.
WithOsImport(p, ctx) ==
    IF "os" \notin ctx.imported_modules /\ "os" \notin p.added_imports
    THEN Pass(InsertAt(p.lines, 0, ImportOsLine),
              p.added_imports \cup {"os"}, p.defined_vars, FALSE)
    ELSE p

\* fix['type'] == 'safe_file_open'
SafeFileOpen(p, error, ctx) ==
    LET q == WithOsImport(p, ctx)
    IN  IF error.line >= Len(q.lines) THEN Raised(q)
        ELSE Pass(ReplaceAt(q.lines, error.line,
                            FileBlock(At(q.lines, error.line), error.fix.filename)),
                  q.added_imports, q.defined_vars, FALSE)

KnownFixes ==
    {"add_comment", "wrap_with_check", "define_variable", "wrap_division", "safe_file_open"}

\* error.get('fix') is missing or empty.
NoFix == Fix("", "", NoLine, <<>>)

HasFix(error) == error.fix # NoFix

\* A chain that ends in `else: raise`.
OtherFixRaises(p, error) == Raised(p)

\* A fix whose type is none of the known ones falls through the chain.
OtherFix(p, error) == p

---------------------------------------------------------------------------
(* State *)

VARIABLES
    code,            \* the source text, split into lines
    foreign,         \* diagnostics handed to the rewrite engine that scan did not produce
    context,         \* the context built from code
    errors,          \* the diagnostic list
    scan_line,       \* the line the loop of the context builder or the scanner is at
    lines,           \* the line buffer of apply_smart_fixes
    errors_by_line,  \* the diagnostics the pass has yet to apply, sorted
    added_imports,   \* apply_smart_fixes' set of imports it added
    defined_vars,    \* apply_smart_fixes' set of names it defined
    pc,              \* where the analysis is
    inserted,        \* history: the names a definition line was inserted for, in order
    last,            \* history: the diagnostic applied last and the line it took as its target
    error_line,      \* the argument of find_insertion_point
    insert_line,     \* the result of find_insertion_point
    user_db,         \* the usage counters, by user key
    threads,         \* the request each server thread is handling and where it is in it
    auth_seen        \* history: whether a request carried an Authorization header

vars ==
    <<code, foreign, context, errors, scan_line, lines, errors_by_line, added_imports,
      defined_vars, pc, inserted, last, error_line, insert_line, user_db, threads,
      auth_seen>>

textVars == <<code, foreign, context, errors, scan_line>>

passVars == <<lines, errors_by_line, added_imports, defined_vars, inserted, last>>

findVars == <<error_line, insert_line>>

rateVars == <<user_db, threads, auth_seen>>

NoLast == [type |-> "", line |-> 0, target |-> NoLine]

\* The texts of 1..MaxLines lines drawn from a set of lines.
Texts(L) == UNION {[1..n -> L] : n \in 1..MaxLines}

Line(indent, toks) == [indent |-> indent, toks |-> toks]

InitText == 
    /\ context = EmptyContext
    /\ errors = <<>>
    /\ scan_line = 0

InitPass ==
    /\ lines = <<>>
    /\ errors_by_line = <<>>
    /\ added_imports = {}
    /\ defined_vars = {}
    /\ inserted = <<>>
    /\ last = NoLast

InitFind == error_line = 0 /\ insert_line = 0

InitRate == user_db = <<>> /\ threads = <<>> /\ auth_seen = FALSE

---------------------------------------------------------------------------
(* The rewrite pass: analyze_code from the context to the fixed code *)

FixLines ==
    {Line(0, <<"x", "=", "a">>),
     Line(0, <<"f", "=", "open", "(", "'", "a", ".", "txt", "'", ")">>),
     Line(0, <<"return", "10", "/", "0">>),
     Line(4, <<"x", "=", "10", "/", "0">>),
     Line(0, <<"import", "os">>),
     Line(0, <<"import", "pandas">>),
     Line(0, <<"data", "=", "None">>),
     Line(4, <<"r", "=", "data", ".", "process", "(", ")">>),
     Line(0, <<"def", "f", "(", "x", ")", ":">>),
     Line(0, <<>>)}

\* Diagnostics of a caller or of a detector scan does not have: one with no
\* fix, one with a fix of an unknown type, one defining a name, and one
\* whose line is beyond the text.
ForeignDiags ==
    {Diag("Hint", MaxLines, NoFix),
     Diag("StyleError", 0, Fix("rename_symbol", "x", NoLine, <<>>)),
     Diag("NameError", 0, Fix("define_variable", "x", NoLine, <<>>)),
     Diag("ZeroDivisionError", MaxLines, Fix("wrap_division", "", NoLine, <<>>))}

FromScan == foreign = <<>>

InitFix ==
    /\ code \in Texts(FixLines)
    /\ foreign \in {<<>>} \cup {<<d>> : d \in ForeignDiags}
    /\ pc = "start"
    /\ InitText /\ InitPass /\ InitFind /\ InitRate

\* context = analyze_code_context(code); errors = detect_errors_with_context(code, context)
Analyze ==
    /\ pc = "start"
    /\ context' = analyze_code_context(code)
    /\ errors' = detect_errors_with_context(code, context') \o foreign
    /\ pc' = "scanned"
    /\ UNCHANGED <<code, foreign, scan_line, passVars, findVars, rateVars>>

\* `if fix_errors and errors` fails: fixed_code = code
NothingToFix ==
    /\ pc = "scanned"
    /\ errors = <<>>
    /\ lines' = code
    /\ pc' = "done"
    /\ UNCHANGED <<textVars, errors_by_line, added_imports, defined_vars, inserted, last,
                   findVars, rateVars>>

\* The head of apply_smart_fixes: split, the two empty sets, the sort.
BeginFixes ==
    /\ pc = "scanned"
    /\ errors # <<>>
    /\ lines' = code
    /\ added_imports' = {}
    /\ defined_vars' = {}
    /\ errors_by_line' = SortedByLineDesc(errors)
    /\ pc' = "apply"
    /\ UNCHANGED <<textVars, inserted, last, findVars, rateVars>>

CurrentPass == Pass(lines, added_imports, defined_vars, FALSE)

\* One iteration of the loop has left the pass in state q.
Applied(error, target, q) ==
    /\ lines' = q.lines
    /\ added_imports' = q.added_imports
    /\ defined_vars' = q.defined_vars
    /\ errors_by_line' = Tail(errors_by_line)
    /\ pc' = IF q.raised THEN "failed" ELSE "apply"
    /\ last' = [type |-> error.fix.type, line |-> error.line, target |-> target]
    /\ inserted' = IF error.fix.type = "define_variable" /\ Len(q.lines) > Len(lines)
                   THEN Append(inserted, error.fix.var) ELSE inserted
    /\ UNCHANGED <<textVars, findVars, rateVars>>

\* The line an iteration reads as lines[line_num], if there is one.
TargetOf(ls, error) == IF error.line < Len(ls) THEN At(ls, error.line) ELSE NoLine

Iteration(type) ==
    /\ pc = "apply"
    /\ errors_by_line # <<>>
    /\ HasFix(Head(errors_by_line))
    /\ Head(errors_by_line).fix.type = type

ApplyNoFix ==
    /\ pc = "apply"
    /\ errors_by_line # <<>>
    /\ ~HasFix(Head(errors_by_line))
    /\ Applied(Head(errors_by_line), NoLine, CurrentPass)

ApplyAddComment ==
    /\ Iteration("add_comment")
    /\ LET error == Head(errors_by_line)
       IN  Applied(error, TargetOf(lines, error), AddComment(CurrentPass, error))

ApplyWrapWithCheck ==
    /\ Iteration("wrap_with_check")
    /\ LET error == Head(errors_by_line)
       IN  Applied(error, TargetOf(lines, error), WrapWithCheck(CurrentPass, error))

ApplyDefineVariable ==
    /\ Iteration("define_variable")
    /\ LET error == Head(errors_by_line)
       IN  Applied(error, TargetOf(lines, error), DefineVariable(CurrentPass, error, context))

ApplyWrapDivision ==
    /\ Iteration("wrap_division")
    /\ LET error == Head(errors_by_line)
       IN  Applied(error, TargetOf(lines, error), WrapDivision(CurrentPass, error))

ApplySafeFileOpen ==
    /\ Iteration("safe_file_open")
    /\ LET error == Head(errors_by_line)
       IN  Applied(error, TargetOf(WithOsImport(CurrentPass, context).lines, error),
                   SafeFileOpen(CurrentPass, error, context))

ApplyOtherFix ==
    /\ pc = "apply"
    /\ errors_by_line # <<>>
    /\ HasFix(Head(errors_by_line))
    /\ Head(errors_by_line).fix.type \notin KnownFixes
    /\ LET error == Head(errors_by_line)
       IN  Applied(error, NoLine, OtherFix(CurrentPass, error))

\* return '\n'.join(lines)
ReturnFixed ==
    /\ pc = "apply"
    /\ errors_by_line = <<>>
    /\ pc' = "done"
    /\ UNCHANGED <<textVars, passVars, findVars, rateVars>>

NextFix ==
    \/ Analyze
    \/ NothingToFix
    \/ BeginFixes
    \/ ApplyNoFix
    \/ ApplyAddComment
    \/ ApplyWrapWithCheck
    \/ ApplyDefineVariable
    \/ ApplyWrapDivision
    \/ ApplySafeFileOpen
    \/ ApplyOtherFix
    \/ ReturnFixed

SpecFix == InitFix /\ [][NextFix]_vars

---------------------------------------------------------------------------
(* Properties of the rewrite pass *)

\* The diagnostic the loop of apply_smart_fixes is about to apply.
NextError == Head(errors_by_line)

Applying == pc = "apply" /\ errors_by_line # <<>>

\* Every fix applied so far in the pass was for a diagnostic of a later
\* line than the one about to be applied.
FirstOfItsLine ==
    Len(errors_by_line) = Len(errors) \/ last.line > NextError.line

\* C1: for a diagnostic list produced by scan, when the diagnostic anchored
\* at line k is about to be applied, the buffer entry at index k is still
\* source line k: no fix applied earlier in the pass has shifted or
\* replaced it.  Stated for the claim's own case, lines [2, 5, 5]: the
\* fixes applied so far were all for later lines.
C1_TargetIsSourceLine ==
    (FromScan /\ Applying /\ FirstOfItsLine) =>
        /\ NextError.line < Len(lines)
        /\ At(lines, NextError.line) = At(code, NextError.line)

\* C2: when a safe_file_open fix for a diagnostic of scan at line k is
\* applied, the line it replaces is source line k, the line with the
\* open(...) call the diagnostic flagged, the block starts at index k with
\* the guard for the flagged filename, and the statement inside the guard
\* is that open statement.
C2_OpenLineIsGuarded ==
    [][(FromScan /\ Iteration("safe_file_open")) =>
        /\ last'.target = At(code, NextError.line)
        /\ OpenPlaces(last'.target.toks) # {}
        /\ SubSeq(lines', NextError.line + 1, NextError.line + 4)
             = FileBlock(At(code, NextError.line), NextError.fix.filename)]_vars

\* The statement of a line divides by the literal 0.
DividesByZero(line) ==
    DivPlaces(line.toks) # {} /\ line.toks[Min(DivPlaces(line.toks)) + 1] = "0"

C4_LineCountNeverDecreases ==
    /\ [][pc = "apply" => Len(lines') >= Len(lines)]_vars
    /\ [](pc = "done" => Len(lines) >= Len(code))

\* A pass that applied an add_comment fix on a line with a successor and
\* grew the text.
C4_Witness ==
    /\ pc = "done"
    /\ Len(lines) > Len(code)
    /\ \E k \in 1..Len(errors) :
          errors[k].fix.type = "add_comment" /\ errors[k].line + 1 < Len(code)

\* The number of definition lines inserted for a name.
InsertedFor(var) == Len(SelectSeq(inserted, LAMBDA v : v = var))

\* The names of the define_variable fixes of the pass.
FlaggedNames ==
    {errors[k].fix.var : k \in {j \in 1..Len(errors) : errors[j].fix.type = "define_variable"}}

\* The definition lines of a name in the buffer.
DefinitionsOf(var) ==
    {k \in 1..Len(lines) :
        /\ Len(lines[k].toks) = 5
        /\ lines[k].toks = DefinitionLine(lines[k].indent, var).toks}

\* C5: within one pass at most one definition line is inserted for a name,
\* however many define_variable diagnostics carry it, and none for a name
\* in the context's defined names.
C5_OneDefinitionPerName ==
    \A var \in FlaggedNames :
        /\ InsertedFor(var) <= 1
        /\ Cardinality(DefinitionsOf(var)) <= 1
        /\ var \in context.defined_vars => InsertedFor(var) = 0

\* A finished pass with two define_variable diagnostics for one name on
\* different lines, and with a define_variable diagnostic for a name of
\* the context.
C5_Witness ==
    /\ pc = "done"
    /\ \E j, k \in 1..Len(errors) :
          /\ errors[j].fix.type = "define_variable"
          /\ errors[k].fix.type = "define_variable"
          /\ errors[j].fix.var = errors[k].fix.var
          /\ errors[j].line # errors[k].line
          /\ InsertedFor(errors[j].fix.var) = 1
    /\ \E k \in 1..Len(errors) :
          /\ errors[k].fix.type = "define_variable"
          /\ errors[k].fix.var \in context.defined_vars

\* The diagnostic about to be applied carries no fix, or a fix of a type
\* that is none of the five known ones.
NextIsInert == ~HasFix(NextError) \/ NextError.fix.type \notin KnownFixes

\* C9: a diagnostic with no fix or with a fix of an unknown type changes
\* neither the buffer nor the two sets, raises nothing and lets the loop go
\* on with the remaining diagnostics; and a pass over the diagnostics of
\* scan never fails: every line index it uses is inside the buffer.
C9_InertFixesAndNoFailure ==
    /\ [][(Applying /\ NextIsInert) =>
            /\ lines' = lines
            /\ added_imports' = added_imports
            /\ defined_vars' = defined_vars
            /\ pc' = "apply"
            /\ errors_by_line' = Tail(errors_by_line)]_vars
    /\ [](FromScan => pc # "failed")
    /\ []((FromScan /\ Applying) => NextError.line < Len(lines))

\* A finished pass that met a diagnostic with no fix or with an unknown
\* fix and applied a diagnostic after it.
C9_Witness ==
    /\ pc = "done"
    /\ \E k \in 1..(Len(SortedByLineDesc(errors)) - 1) :
          LET e == SortedByLineDesc(errors)[k]
          IN  ~HasFix(e) \/ e.fix.type \notin KnownFixes
    /\ lines # code

---------------------------------------------------------------------------
(* The two scans, line by line: analyze_code_context, then             *)
(* detect_errors_with_context                                              *)

ScanLines ==
    {Line(0, <<"def", "f", "(", "self", ",", "y", ")", ":">>),
     Line(4, <<"self", ".", "x", "=", "y">>),
     Line(0, <<"class", "A", ":">>),
     Line(0, <<"for", "i", "in", "data", ":">>),
     Line(0, <<"from", "os", "import", "path", ",", "sep">>),
     Line(0, <<"import", "os">>),
     Line(0, <<"x", "=", "a">>),
     Line(4, <<"print", "(", "x", ",", "a", ",", "b", ",", "i", ")">>),
     Line(4, <<"y", "=", "A", "(", "path", ",", "f", ",", "os", ")">>),
     Line(0, <<>>)}

InitScan ==
    /\ code \in Texts(ScanLines)
    /\ foreign = <<>>
    /\ pc = "context"
    /\ InitText /\ InitPass /\ InitFind /\ InitRate

\* One iteration of the loop of analyze_code_context.
BuildContextLine ==
    /\ pc = "context"
    /\ scan_line < Len(code)
    /\ context' = ContextLine(context, At(code, scan_line))
    /\ scan_line' = scan_line + 1
    /\ UNCHANGED <<code, foreign, errors, pc, passVars, findVars, rateVars>>

\* analyze_code_context returns; detect_errors_with_context starts.
ReturnContext ==
    /\ pc = "context"
    /\ scan_line = Len(code)
    /\ pc' = "scan"
    /\ scan_line' = 0
    /\ UNCHANGED <<code, foreign, context, errors, passVars, findVars, rateVars>>

\* One iteration of the loop of detect_errors_with_context.
ScanLine ==
    /\ pc = "scan"
    /\ scan_line < Len(code)
    /\ errors' = errors \o DetectLine(code, context, scan_line)
    /\ scan_line' = scan_line + 1
    /\ UNCHANGED <<code, foreign, context, pc, passVars, findVars, rateVars>>

\* detect_errors_with_context returns.
ReturnErrors ==
    /\ pc = "scan"
    /\ scan_line = Len(code)
    /\ pc' = "done"
    /\ UNCHANGED <<textVars, passVars, findVars, rateVars>>

NextScan == BuildContextLine \/ ReturnContext \/ ScanLine \/ ReturnErrors

SpecScan == InitScan /\ [][NextScan]_vars

\* What Python binds on a line: the target of an assignment, an imported
\* name, a for-loop target, a function's name and parameters, a class name.
Binds(line, var) ==
    LET ts == line.toks
    IN  \/ Len(ts) >= 2 /\ ts[1] = var /\ ts[2] = "="
        \/ Len(ts) >= 2 /\ ts[1] = "import" /\ ts[2] = var
        \/ Len(ts) >= 4 /\ ts[1] = "from" /\ ts[3] = "import"
              /\ \E p \in 4..Len(ts) : ts[p] = var
        \/ Len(ts) >= 4 /\ ts[1] = "for" /\ ts[2] = var /\ ts[3] = "in"
        \/ Len(ts) >= 2 /\ ts[1] \in {"def", "class"} /\ ts[2] = var
        \/ Len(ts) >= 5 /\ ts[1] = "def" /\ ts[3] = "("
              /\ \E p \in 4..Len(ts) : ts[p] = var /\ ts[p - 1] \in {"(", ","}

\* The undefined-name diagnostics of a line (0-based).
NameErrorsAt(i) ==
    {k \in 1..Len(errors) : errors[k].type = "NameError" /\ errors[k].line = i}

\* C6: a name that a line assigns, imports or binds as a loop target, a
\* parameter, a class or a function is not the subject of an
\* undefined-name diagnostic on a later line.
C6_BoundNamesNotFlagged ==
    \A k \in 1..Len(errors) :
        errors[k].type = "NameError" =>
            \A j \in 1..errors[k].line : ~Binds(code[j], errors[k].fix.var)

\* The places of the tokens of a line that survive every exclusion.
Survivors(line) ==
    {p \in 1..Len(line.toks) :
        IsIdent(line.toks[p]) /\ ~Excluded(context, line.toks, line.toks[p])}

\* The scanner is past line i.
Scanned(i) == pc = "done" \/ (pc = "scan" /\ i < scan_line)

\* C7: the diagnostic list has at most one undefined-name diagnostic per
\* line; a scanned line with tokens that survive every exclusion has
\* exactly one, for the first such token from the left, and a line with
\* none has none.
C7_OneNameErrorPerLine ==
    \A i \in 0..(Len(code) - 1) :
        /\ Cardinality(NameErrorsAt(i)) <= 1
        /\ Scanned(i) =>
              IF ~IsSkipped(At(code, i)) /\ Survivors(At(code, i)) # {}
              THEN \E k \in NameErrorsAt(i) :
                      errors[k].fix.var = At(code, i).toks[Min(Survivors(At(code, i)))]
              ELSE NameErrorsAt(i) = {}

\* A finished scan of a text with a line where two different names survive.
C7_Witness ==
    /\ pc = "done"
    /\ \E i \in 0..(Len(code) - 1) :
          /\ \E p, q \in Survivors(At(code, i)) :
                p < q /\ At(code, i).toks[p] # At(code, i).toks[q]
          /\ \E k \in NameErrorsAt(i) :
                errors[k].fix.var = At(code, i).toks[Min(Survivors(At(code, i)))]

---------------------------------------------------------------------------
(* find_insertion_point on any buffer and any line of it *)

FindLines ==
    {Line(0, <<"x", "=", "a">>),
     Line(4, <<"x", "=", "a">>),
     Line(8, <<"x", "=", "a">>),
     Line(0, <<"def", "f", "(", "x", ")", ":">>),
     Line(4, <<"def", "f", "(", "x", ")", ":">>),
     Line(0, <<"class", "A", ":">>),
     Line(0, <<>>),
     Line(8, <<>>)}

InitFind2 ==
    /\ lines \in Texts(FindLines)
    /\ error_line \in 0..(MaxLines - 1)
    /\ error_line < Len(lines)
    /\ insert_line = 0
    /\ pc = "call"
    /\ code = <<>> /\ foreign = <<>>
    /\ InitText
    /\ errors_by_line = <<>> /\ added_imports = {} /\ defined_vars = {}
    /\ inserted = <<>> /\ last = NoLast
    /\ InitRate

\* insert_line = find_insertion_point(lines, line_num)
CallFind ==
    /\ pc = "call"
    /\ insert_line' = find_insertion_point(lines, error_line)
    /\ pc' = "returned"
    /\ UNCHANGED <<textVars, passVars, error_line, rateVars>>

NextFind == CallFind

SpecFind == InitFind2 /\ [][NextFind]_vars

\* Line i (0-based) ends the walk up from error_line: it is not blank and
\* is indented less than line error_line, or as much and a def or class
\* header.
EndsWalk(i) ==
    /\ At(lines, i).toks # <<>>
    /\ \/ At(lines, i).indent < At(lines, error_line).indent
       \/ /\ At(lines, i).indent = At(lines, error_line).indent
          /\ Len(At(lines, i).toks) >= 2
          /\ At(lines, i).toks[1] \in {"def", "class"}

\* C8: find_insertion_point(lines, e) is i + 1 for the nearest line i above
\* e that ends the walk, and 0 if there is none; so it is in 0..e.
C8_InsertionPoint ==
    pc = "returned" =>
        LET ends == {i \in 0..(error_line - 1) : EndsWalk(i)}
        IN  /\ insert_line = IF ends = {} THEN 0 ELSE Max(ends) + 1
            /\ insert_line \in 0..error_line

\* A call that passed over a blank line and stopped below a line that ends
\* the walk, short of the top of the buffer.
C8_Witness ==
    /\ pc = "returned"
    /\ insert_line >= 1
    /\ insert_line < error_line
    /\ \E i \in insert_line..(error_line - 1) : IsBlank(At(lines, i))

---------------------------------------------------------------------------
(* The usage counter of analyze_code, with the server's threads *)

\* The free tier's monthly limit.
FreeLimit == 100

\* user_key of the requests of one caller in one month.
UserKey == "addr:month"

Threads == 1..NumThreads

Idle == [pc |-> "idle", auth |-> FALSE, count |-> 0, handled |-> 0, status |-> 0]

InitRate2 ==
    /\ user_db \in {<<>>} \cup
          {[k \in {UserKey} |-> c] : c \in (FreeLimit - StartBelow)..FreeLimit}
    /\ threads = [t \in Threads |-> Idle]
    /\ auth_seen = FALSE
    /\ pc = "serving"
    /\ code = <<>> /\ foreign = <<>>
    /\ InitText /\ InitPass /\ InitFind

Goto(t, where) == threads' = [threads EXCEPT ![t].pc = where]

notRateVars == <<textVars, passVars, findVars, pc>>

\* data = request.json; code = data.get('code'): an empty code is refused.
Receive ==
    \E t \in Threads :
        /\ threads[t].pc = "idle"
        /\ threads[t].handled < MaxRequests
        /\ \E has_code, auth \in BOOLEAN :
              /\ threads' = [threads EXCEPT ![t] =
                    [pc |-> IF has_code THEN "lookup" ELSE "idle",
                     auth |-> auth,
                     count |-> 0,
                     handled |-> @.handled + 1,
                     status |-> IF has_code THEN 0 ELSE 400]]
              /\ auth_seen' = (auth_seen \/ auth)
        /\ UNCHANGED <<user_db, notRateVars>>

\* if user_key not in user_db:
Lookup ==
    \E t \in Threads :
        /\ threads[t].pc = "lookup"
        /\ Goto(t, IF UserKey \in DOMAIN user_db THEN "limit" ELSE "create")
        /\ UNCHANGED <<user_db, auth_seen, notRateVars>>

\* user_db[user_key] = 0
Create ==
    \E t \in Threads :
        /\ threads[t].pc = "create"
        /\ user_db' = [k \in {UserKey} |-> 0]
        /\ Goto(t, "limit")
        /\ UNCHANGED <<auth_seen, notRateVars>>

\* if user_db[user_key] >= 100: without an Authorization header, 429.
CheckLimit ==
    \E t \in Threads :
        /\ threads[t].pc = "limit"
        /\ IF user_db[UserKey] >= FreeLimit /\ ~threads[t].auth
           THEN threads' = [threads EXCEPT ![t].pc = "idle", ![t].status = 429]
           ELSE Goto(t, "load")
        /\ UNCHANGED <<user_db, auth_seen, notRateVars>>

\* user_db[user_key] += 1 : the read
Load ==
    \E t \in Threads :
        /\ threads[t].pc = "load"
        /\ threads' = [threads EXCEPT ![t].pc = "store", ![t].count = user_db[UserKey]]
        /\ UNCHANGED <<user_db, auth_seen, notRateVars>>

\* user_db[user_key] += 1 : the write
Store ==
    \E t \in Threads :
        /\ threads[t].pc = "store"
        /\ user_db' = [user_db EXCEPT ![UserKey] = threads[t].count + 1]
        /\ threads' = [threads EXCEPT ![t].pc = "analyse", ![t].count = 0]
        /\ UNCHANGED <<auth_seen, notRateVars>>

\* The analysis and the response, with 'usage': user_db[user_key].
Respond ==
    \E t \in Threads :
        /\ threads[t].pc = "analyse"
        /\ threads' = [threads EXCEPT ![t].pc = "idle", ![t].status = 200]
        /\ UNCHANGED <<user_db, auth_seen, notRateVars>>

NextRate ==
    \/ Receive
    \/ Lookup
    \/ Create
    \/ CheckLimit
    \/ Load
    \/ Store
    \/ Respond

SpecRate == InitRate2 /\ [][NextRate]_vars

\* C10: a request with code and no Authorization header is counted only if
\* the caller's counter is below 100, and is refused with 429 and not
\* counted otherwise; so the counter of a caller that never sends an
\* Authorization header never exceeds 100, however its requests interleave.
C10_CounterWithinLimit ==
    (~auth_seen /\ UserKey \in DOMAIN user_db) => user_db[UserKey] <= FreeLimit

===========================================================================
